---- MODULE Spec2Model ----
(***************************************************************************)
(* Model of Python/64_Registration_Memory_Time_Tradeoff.ipynb: the cells   *)
(* of the notebook run by one kernel, the body of register_images, and the *)
(* arithmetic of the resampling cell.                                      *)
(*                                                                         *)
(* Spacings are positive rationals <<n, d>> (n/d millimetres) and the      *)
(* arithmetic on them is exact.  Transforms, point sets and error arrays   *)
(* are symbolic records: the optimiser, the interpolators and the metric   *)
(* live in the wrapped library and only their calls are modelled.          *)
(***************************************************************************)
EXTENDS Integers, Sequences, FiniteSets

\* ---------------------------------------------------------------- bounds
\* Moving-image geometry explored by the notebook specification.
MaxNum == 3
MaxDen == 2
MaxSize == 1
\* Distinct optimiser results Execute may return.
MaxOptResult == 2
\* Inputs explored by the specification of the size arithmetic.
FnMaxNum == 4
FnMaxDen == 3
FnMaxSize == 4

\* The images are volumes (Euler3DTransform, 3-D point pairs).
Dim == 3
Axes == 1..Dim

\* ------------------------------------------------------------- rationals
RECURSIVE GCD(_, _)
GCD(a, b) == IF b = 0 THEN a ELSE GCD(b, a % b)

\* Reduced fractions n/d with n <= maxNum, d <= maxDen.
Fractions(maxNum, maxDen) ==
    {q \in (1..maxNum) \X (1..maxDen) : GCD(q[1], q[2]) = 1}

One == <<1, 1>>

\* Python's int() of the non-negative rational p/q: truncation toward zero.
Trunc(p, q) == p \div q

\* round() of the non-negative rational p/q as Python evaluates it: the
\* nearest integer, a tie going to the even neighbour.
Round(p, q) ==
    LET f == p \div q
        r == p % q
    IN  IF 2 * r < q THEN f
        ELSE IF 2 * r > q THEN f + 1
        ELSE IF f % 2 = 0 THEN f ELSE f + 1

\* ------------------------------------------------- the resampling arithmetic
\* int(spacing / new_s * size)
ResampledSize(spacing, new_s, size) ==
    Trunc(spacing[1] * new_s[2] * size, spacing[2] * new_s[1])

\* The factor with the operands of the division exchanged.
ExpandFactorSwapped(original_s, new_s) ==
    Trunc(2 * new_s[1] * original_s[2] + new_s[2] * original_s[1],
        2 * new_s[2] * original_s[1])

\* int(original_s/new_s + 0.5)
ExpandFactor(original_s, new_s) ==
    Trunc(2 * original_s[1] * new_s[2] + original_s[2] * new_s[1],
        2 * original_s[2] * new_s[1])

\* sitk.Expand multiplies the size of every axis by that axis' factor.
ExpandedSize(factor, size) == factor * size

\* ------------------------------------------------------------ the notebook
\* The code cells in the order they appear in the notebook.
CellOrderHistogramEarly ==
    << "imports", "load_data", "resample", "initial_alignment",
       "original_resolution", "tre_histogram", "higher_resolution" >>

CellOrder ==
    << "imports", "load_data", "resample", "initial_alignment",
       "original_resolution", "higher_resolution", "tre_histogram" >>

Cells == {CellOrder[i] : i \in 1..Len(CellOrder)}
RegCells == {"original_resolution", "higher_resolution"}

\* The files the load cell fetches, in the order it reads them.
DataFiles == << "training_001_ct.mha", "training_001_mr_T1.mha", "ct_T1.standard" >>

\* Names the load cell has bound once its first k reads have succeeded.
LoadedAfter(k) ==
    IF k = 0 THEN {}
    ELSE IF k = 1 THEN {"fixed_image"}
    ELSE IF k = 2 THEN {"fixed_image", "moving_image"}
    ELSE {"fixed_image", "moving_image", "fixed_fiducial_points",
          "moving_fiducial_points", "R", "t", "reference_transform",
          "fixed_points", "moving_points"}

\* The two registration cells with the interpolator of the first in both.
CellArgsSameInterpolator(c) ==
    [ fixed |-> "fixed_image",
      moving |-> IF c = "original_resolution" THEN "moving_image"
                 ELSE "resampled_moving_image",
      initial |-> "initial_transform",
      interpolator |-> "sitkLinear",
      errors |-> IF c = "original_resolution" THEN "original_resolution_errors"
                 ELSE "resampled_resolution_errors" ]

\* What each registration cell passes to register_images and which name
\* receives the error array.
CellArgs(c) ==
    [ fixed |-> "fixed_image",
      moving |-> IF c = "original_resolution" THEN "moving_image"
                 ELSE "resampled_moving_image",
      initial |-> "initial_transform",
      interpolator |-> IF c = "original_resolution" THEN "sitkLinear"
                       ELSE "sitkNearestNeighbor",
      errors |-> IF c = "original_resolution" THEN "original_resolution_errors"
                 ELSE "resampled_resolution_errors" ]

\* A timed cell without its global statement.
GlobalDeclMissing(c) == {}

\* The names a %%timeit cell declares global.
GlobalDecl(c) == {CellArgs(c).errors}

\* Every name a registration cell assigns.
CellAssigned(c) ==
    {"final_transform", "optimizer_termination", "final_errors_mean",
     "final_errors_std", "_", "final_errors_max", CellArgs(c).errors}

\* register_images with Execute ahead of SetInitialTransform.
RegisterStepsExecuteEarly ==
    << "SetMetricAsMattesMutualInformation", "SetMetricSamplingStrategy",
       "SetMetricSamplingPercentage", "SetInterpolator",
       "SetOptimizerAsGradientDescent", "SetOptimizerScalesFromPhysicalShift",
       "Execute", "SetInitialTransform",
       "GetOptimizerStopConditionDescription" >>

\* The calls register_images makes on registration_method, in program order.
RegisterSteps ==
    << "SetMetricAsMattesMutualInformation", "SetMetricSamplingStrategy",
       "SetMetricSamplingPercentage", "SetInterpolator",
       "SetOptimizerAsGradientDescent", "SetOptimizerScalesFromPhysicalShift",
       "SetInitialTransform", "Execute",
       "GetOptimizerStopConditionDescription" >>

\* SetInitialTransform(initial_transform, inPlace=True)
InPlaceTrue == TRUE

\* SetInitialTransform(initial_transform, inPlace=False)
InPlace == FALSE

\* ------------------------------------------------------------------ values
NoImage ==
    [ src |-> "none", size |-> [a \in Axes |-> 0], spacing |-> [a \in Axes |-> One],
      origin |-> "none", direction |-> "none", pixelID |-> "none",
      interpolator |-> "none", transform |-> "none" ]

\* sitk.ReadImage(fdata(file), sitk.sitkFloat32) of a file with that grid.
ReadImage(file, size, spacing) ==
    [ src |-> file, size |-> size, spacing |-> spacing,
      origin |-> file, direction |-> file, pixelID |-> "sitkFloat32",
      interpolator |-> "none", transform |-> "none" ]

MovingSpacings == {q \in Fractions(MaxNum, MaxDen) : q[1] >= q[2]}
MovingSizes == 1..MaxSize

\* The fixed CT volume: its grid plays no part in the notebook's arithmetic.
FixedCT ==
    ReadImage(DataFiles[1], [a \in Axes |-> 1], [a \in Axes |-> One])

NoPoints == [of |-> "none", via |-> "none"]
NoTransform == [type |-> "none", fixed |-> "none", moving |-> "none", result |-> 0]
NoErrors == [tx |-> NoTransform, fixed_points |-> NoPoints, moving_points |-> NoPoints]
NoError == [type |-> "none", from |-> "none"]

\* The grid with the original spacing kept.
NewSpacingOriginal(img) == img.spacing

\* new_spacing = [1.0] * moving_image.GetDimension()
NewSpacing(img) == [a \in Axes |-> One]

\* sitk.CenteredTransformInitializer(fixed, moving, Euler3DTransform(), GEOMETRY)
CenteredTransformInitializer(f, m) ==
    [type |-> "Euler3DTransform", fixed |-> f.src, moving |-> m.src, result |-> 0]

\* ru.registration_errors(tx, fixed_points, moving_points): the error array.
RegistrationErrors(tx, fp, mp) ==
    [tx |-> tx, fixed_points |-> fp, moving_points |-> mp]

\* An exception handler that swallows the error and lets the cell finish.
Swallowed(err) == [status |-> "done", surfaced |-> NoError]

\* No cell and no function of the notebook has a try statement: an exception
\* raised by a library call leaves the running cell and reaches the kernel.
Unhandled(err) == [status |-> "raised", surfaced |-> err]

\* ------------------------------------------------------------------- state
VARIABLES
    status,                      \* per cell: pending, running, done, raised
    pc,                          \* position inside the running cell
    globals,                     \* names bound in the kernel's namespace
    locals,                      \* names bound inside the running %%timeit body
    surfaced,                    \* the error the kernel reported, if any
    fixed_image, moving_image, fixed_points, moving_points,
    new_spacing, resampled_image_size, resampled_moving_image,
    initial_transform,
    final_transform, optimizer_termination,
    original_resolution_errors, resampled_resolution_errors,
    frame,                       \* the activation of register_images
    calls,                       \* calls made on registration_method objects
    execLog,                     \* what every Execute call received and gave
    errLog,                      \* what every registration_errors call received
    printed,                     \* cells that printed their error statistics
    plotted,                     \* the arrays handed to plt.hist
    fn                           \* the size arithmetic applied to free inputs

nbvars ==
    << status, pc, globals, locals, surfaced, fixed_image, moving_image,
       fixed_points, moving_points, new_spacing, resampled_image_size,
       resampled_moving_image, initial_transform, final_transform,
       optimizer_termination, original_resolution_errors,
       resampled_resolution_errors, frame, calls, execLog, errLog, printed,
       plotted >>

vars == << nbvars, fn >>

NoFrame ==
    [ active |-> FALSE, cell |-> "none", id |-> 0, fixed |-> NoImage,
      moving |-> NoImage, interpolator |-> "none", rpc |-> 0,
      configured |-> {}, m_interpolator |-> "unset", m_initial |-> NoTransform,
      m_inPlace |-> FALSE, final |-> NoTransform ]

NoTermination == [id |-> 0, result |-> 0]
NoPlot == << NoErrors, NoErrors >>

FnIdle ==
    [ spacing |-> One, new_s |-> One, size |-> 0, out_size |-> 0, factor |-> 0,
      phase |-> "idle" ]

NotebookInit ==
    /\ status = [c \in Cells |-> "pending"]
    /\ pc = "idle"
    /\ globals = {}
    /\ locals = {}
    /\ surfaced = NoError
    /\ fixed_image = NoImage
    /\ moving_image = NoImage
    /\ fixed_points = NoPoints
    /\ moving_points = NoPoints
    /\ new_spacing = [a \in Axes |-> One]
    /\ resampled_image_size = [a \in Axes |-> 0]
    /\ resampled_moving_image = NoImage
    /\ initial_transform = NoTransform
    /\ final_transform = NoTransform
    /\ optimizer_termination = NoTermination
    /\ original_resolution_errors = NoErrors
    /\ resampled_resolution_errors = NoErrors
    /\ frame = NoFrame
    /\ calls = << >>
    /\ execLog = << >>
    /\ errLog = << >>
    /\ printed = {}
    /\ plotted = NoPlot

Init == NotebookInit /\ fn = FnIdle

\* The value a name of the kernel's namespace is bound to.
Lookup(name) ==
    CASE name = "fixed_image" -> fixed_image
      [] name = "moving_image" -> moving_image
      [] name = "resampled_moving_image" -> resampled_moving_image

Running(c) == status[c] = "running"
Finish(c) == status' = [status EXCEPT ![c] = "done"] /\ pc' = "idle"

imgvars == << fixed_image, moving_image, fixed_points, moving_points >>
gridvars == << new_spacing, resampled_image_size, resampled_moving_image >>
retvars == << final_transform, optimizer_termination >>
errvars == << original_resolution_errors, resampled_resolution_errors >>
logvars == << calls, execLog, errLog, printed, plotted >>

\* ------------------------------------------------------- running the cells
\* Run All: the kernel starts the next cell of the notebook once every cell
\* before it has finished, and starts nothing after a cell has raised.
StartCell ==
    /\ \A c \in Cells : status[c] \notin {"running", "raised"}
    /\ \E i \in 1..Len(CellOrder) :
        /\ status[CellOrder[i]] = "pending"
        /\ \A j \in 1..(i - 1) : status[CellOrder[j]] = "done"
        /\ status' = [status EXCEPT ![CellOrder[i]] = "running"]
        /\ pc' = IF CellOrder[i] \in RegCells THEN "call"
                 ELSE IF CellOrder[i] = "resample" THEN "grid" ELSE "body"
    /\ UNCHANGED << globals, locals, surfaced, imgvars, gridvars,
                    initial_transform, retvars, errvars, frame, logvars, fn >>

\* The first code cell: imports and the definition of register_images.
DefineRegisterImages ==
    /\ Running("imports")
    /\ globals' = globals \cup {"sitk", "np", "plt", "fdata", "ru", "interact",
                                "fixed", "register_images"}
    /\ Finish("imports")
    /\ UNCHANGED << locals, surfaced, imgvars, gridvars, initial_transform,
                    retvars, errvars, frame, logvars, fn >>

\* The load cell when every file is fetched and read.
LoadData ==
    /\ Running("load_data")
    /\ \E size \in [Axes -> MovingSizes], spacing \in [Axes -> MovingSpacings] :
        moving_image' = ReadImage(DataFiles[2], size, spacing)
    /\ fixed_image' = FixedCT
    /\ fixed_points' = [of |-> FixedCT.src, via |-> "generate_random_pointset"]
    /\ moving_points' = [of |-> FixedCT.src, via |-> "reference_transform"]
    /\ globals' = globals \cup LoadedAfter(Len(DataFiles))
    /\ Finish("load_data")
    /\ UNCHANGED << locals, surfaced, gridvars, initial_transform, retvars,
                    errvars, frame, logvars, fn >>

\* The load cell when the fetch or the read of its (k+1)-th file raises.
LoadRaise ==
    /\ Running("load_data")
    /\ \E k \in 0..(Len(DataFiles) - 1) :
        LET h == Unhandled([type |-> "missing file", from |-> DataFiles[k + 1]])
        IN  /\ fixed_image' = IF k >= 1 THEN FixedCT ELSE fixed_image
            /\ IF k >= 2
               THEN \E size \in [Axes -> MovingSizes],
                       spacing \in [Axes -> MovingSpacings] :
                        moving_image' = ReadImage(DataFiles[2], size, spacing)
               ELSE moving_image' = moving_image
            /\ globals' = globals \cup LoadedAfter(k)
            /\ status' = [status EXCEPT !["load_data"] = h.status]
            /\ surfaced' = h.surfaced
    /\ pc' = "idle"
    /\ UNCHANGED << locals, fixed_points, moving_points, gridvars,
                    initial_transform, retvars, errvars, frame, logvars, fn >>

\* The resample cell up to the reference image: new_spacing, the size of
\* every axis, and a blank image carrying the new grid.
ComputeGrid ==
    /\ Running("resample") /\ pc = "grid"
    /\ new_spacing' = NewSpacing(moving_image)
    /\ resampled_image_size' =
         [a \in Axes |-> ResampledSize(moving_image.spacing[a], new_spacing'[a],
                                       moving_image.size[a])]
    /\ resampled_moving_image' =
         [ src |-> "blank", size |-> resampled_image_size',
           spacing |-> new_spacing', origin |-> moving_image.origin,
           direction |-> moving_image.direction,
           pixelID |-> moving_image.pixelID,
           interpolator |-> "none", transform |-> "none" ]
    /\ globals' = globals \cup {"new_spacing", "original_size", "original_spacing",
                                "resampled_image_size", "resampled_moving_image"}
    /\ pc' = "execute"
    /\ UNCHANGED << status, locals, surfaced, imgvars, initial_transform,
                    retvars, errvars, frame, logvars, fn >>

\* The resample filter: moving_image resampled onto the reference grid with
\* the BSpline interpolator through sitk.Transform(), the identity.
ResampleExecute ==
    /\ Running("resample") /\ pc = "execute"
    /\ resampled_moving_image' =
         [ resampled_moving_image EXCEPT
             !.src = moving_image.src,
             !.pixelID = moving_image.pixelID,
             !.interpolator = "sitkBSpline",
             !.transform = "identity" ]
    /\ globals' = globals \cup {"resample"}
    /\ Finish("resample")
    /\ UNCHANGED << locals, surfaced, imgvars, new_spacing, resampled_image_size,
                    initial_transform, retvars, errvars, frame, logvars, fn >>

\* The initial alignment cell.
InitialAlignment ==
    /\ Running("initial_alignment")
    /\ initial_transform' = CenteredTransformInitializer(fixed_image, moving_image)
    /\ globals' = globals \cup {"initial_transform"}
    /\ Finish("initial_alignment")
    /\ UNCHANGED << locals, surfaced, imgvars, gridvars, retvars, errvars,
                    frame, logvars, fn >>

\* ---------------------------------------------------------- register_images
SetSteps ==
    {"SetMetricAsMattesMutualInformation", "SetMetricSamplingStrategy",
     "SetMetricSamplingPercentage", "SetInterpolator",
     "SetOptimizerAsGradientDescent", "SetOptimizerScalesFromPhysicalShift",
     "SetInitialTransform"}

Step == RegisterSteps[frame.rpc]

\* An assignment inside a %%timeit body binds a global name only when the
\* cell declares it global; every other name is local to the body.
Bind(c, names) ==
    /\ globals' = globals \cup (names \cap GlobalDecl(c))
    /\ locals' = locals \cup (names \ GlobalDecl(c))

\* A registration cell calls register_images: the arguments are bound and
\* registration_method is constructed.
CallRegister ==
    /\ \E c \in RegCells :
        /\ Running(c) /\ pc = "call"
        /\ frame' =
             [ NoFrame EXCEPT
                 !.active = TRUE,
                 !.cell = c,
                 !.id = IF calls = << >> THEN 1 ELSE calls[Len(calls)].id + 1,
                 !.fixed = Lookup(CellArgs(c).fixed),
                 !.moving = Lookup(CellArgs(c).moving),
                 !.interpolator = CellArgs(c).interpolator,
                 !.rpc = 1 ]
    /\ pc' = "in_register"
    /\ UNCHANGED << status, globals, locals, surfaced, imgvars, gridvars,
                    initial_transform, retvars, errvars, logvars, fn >>

\* One of the Set... calls that configure registration_method.
RegConfigure ==
    /\ frame.active /\ Step \in SetSteps
    /\ frame' =
         [ frame EXCEPT
             !.configured = @ \cup {Step},
             !.m_interpolator =
                 IF Step = "SetInterpolator" THEN frame.interpolator ELSE @,
             !.m_initial =
                 IF Step = "SetInitialTransform" THEN initial_transform ELSE @,
             !.m_inPlace =
                 IF Step = "SetInitialTransform" THEN InPlace ELSE @,
             !.rpc = @ + 1 ]
    /\ calls' = Append(calls, [id |-> frame.id, op |-> Step])
    /\ UNCHANGED << status, pc, globals, locals, surfaced, imgvars, gridvars,
                    initial_transform, retvars, errvars, execLog, errLog,
                    printed, plotted, fn >>

ExecRecord(outcome, final) ==
    [ cell |-> frame.cell, id |-> frame.id, fixed |-> frame.fixed,
      moving |-> frame.moving, interpolator |-> frame.m_interpolator,
      initial |-> frame.m_initial, configured |-> frame.configured,
      outcome |-> outcome, final |-> final ]

\* registration_method.Execute returns the optimised transform; what made
\* the optimiser stop is reported by the description the return statement
\* reads.  With inPlace the caller's transform object is the one optimised.
RegExecute ==
    /\ frame.active /\ Step = "Execute"
    /\ \E r \in 1..MaxOptResult :
        LET final == [frame.m_initial EXCEPT !.result = r]
        IN  /\ frame' = [frame EXCEPT !.final = final, !.rpc = @ + 1]
            /\ execLog' = Append(execLog, ExecRecord("returned", final))
            /\ initial_transform' =
                 IF frame.m_inPlace THEN final ELSE initial_transform
    /\ calls' = Append(calls, [id |-> frame.id, op |-> Step])
    /\ UNCHANGED << status, pc, globals, locals, surfaced, imgvars, gridvars,
                    retvars, errvars, errLog, printed, plotted, fn >>

\* registration_method.Execute raises: register_images is left without a
\* return value and so is the cell that called it.
RegExecuteRaise ==
    /\ frame.active /\ Step = "Execute"
    /\ LET h == Unhandled([type |-> "RuntimeError", from |-> "Execute"])
       IN  /\ status' = [status EXCEPT ![frame.cell] = h.status]
           /\ surfaced' = h.surfaced
    /\ execLog' = Append(execLog, ExecRecord("raised", NoTransform))
    /\ calls' = Append(calls, [id |-> frame.id, op |-> Step])
    /\ frame' = NoFrame
    /\ locals' = {}
    /\ pc' = "idle"
    /\ UNCHANGED << globals, imgvars, gridvars, initial_transform, retvars,
                    errvars, errLog, printed, plotted, fn >>

\* The return statement: the stop-condition description is read and the
\* pair is assigned to final_transform, optimizer_termination in the cell.
RegReturn ==
    /\ frame.active /\ Step = "GetOptimizerStopConditionDescription"
    /\ calls' = Append(calls, [id |-> frame.id, op |-> Step])
    /\ final_transform' = frame.final
    /\ optimizer_termination' = [id |-> frame.id, result |-> frame.final.result]
    /\ Bind(frame.cell, {"final_transform", "optimizer_termination"})
    /\ frame' = NoFrame
    /\ pc' = "errors"
    /\ UNCHANGED << status, surfaced, imgvars, gridvars, initial_transform,
                    errvars, execLog, errLog, printed, plotted, fn >>

\* ------------------------------------------------- the registration cells
\* ru.registration_errors and the tuple assignment of its five results.
ComputeErrors ==
    /\ \E c \in RegCells :
        /\ Running(c) /\ pc = "errors"
        /\ LET e == RegistrationErrors(final_transform, fixed_points, moving_points)
               name == CellArgs(c).errors
               isGlobal == name \in GlobalDecl(c)
           IN  /\ errLog' = Append(errLog, [cell |-> c, errors |-> e])
               /\ original_resolution_errors' =
                    IF isGlobal /\ name = "original_resolution_errors"
                    THEN e ELSE original_resolution_errors
               /\ resampled_resolution_errors' =
                    IF isGlobal /\ name = "resampled_resolution_errors"
                    THEN e ELSE resampled_resolution_errors
        /\ Bind(c, CellAssigned(c) \ {"final_transform", "optimizer_termination"})
    /\ pc' = "print"
    /\ UNCHANGED << status, surfaced, imgvars, gridvars, initial_transform,
                    retvars, frame, calls, execLog, printed, plotted, fn >>

\* The two print calls; the %%timeit body then returns and its locals go.
PrintResults ==
    /\ \E c \in RegCells :
        /\ Running(c) /\ pc = "print"
        /\ printed' = printed \cup {c}
        /\ Finish(c)
    /\ locals' = {}
    /\ final_transform' = NoTransform
    /\ optimizer_termination' = NoTermination
    /\ UNCHANGED << globals, surfaced, imgvars, gridvars, initial_transform,
                    errvars, frame, calls, execLog, errLog, plotted, fn >>

\* The histogram cell reads both error arrays from the kernel's namespace;
\* a name that is not bound there raises NameError.
PlotHistogram ==
    /\ Running("tre_histogram")
    /\ IF {"original_resolution_errors", "resampled_resolution_errors"}
            \subseteq globals
       THEN /\ plotted' = << original_resolution_errors,
                             resampled_resolution_errors >>
            /\ Finish("tre_histogram")
            /\ UNCHANGED surfaced
       ELSE LET h == Unhandled([type |-> "NameError", from |-> "plt.hist"])
            IN  /\ status' = [status EXCEPT !["tre_histogram"] = h.status]
                /\ surfaced' = h.surfaced
                /\ pc' = "idle"
                /\ UNCHANGED plotted
    /\ UNCHANGED << globals, locals, imgvars, gridvars, initial_transform,
                    retvars, errvars, frame, calls, execLog, errLog, printed, fn >>

Next ==
    \/ StartCell
    \/ DefineRegisterImages
    \/ LoadData
    \/ LoadRaise
    \/ ComputeGrid
    \/ ResampleExecute
    \/ InitialAlignment
    \/ CallRegister
    \/ RegConfigure
    \/ RegExecute
    \/ RegExecuteRaise
    \/ RegReturn
    \/ ComputeErrors
    \/ PrintResults
    \/ PlotHistogram

Spec == Init /\ [][Next]_vars

\* ------------------------------------- the size arithmetic on free inputs
FnInputs == Fractions(FnMaxNum, FnMaxDen)

InitSize ==
    /\ NotebookInit
    /\ \E spacing \in FnInputs, new_s \in FnInputs, size \in 1..FnMaxSize :
        fn = [ spacing |-> spacing, new_s |-> new_s, size |-> size,
               out_size |-> 0, factor |-> 0, phase |-> "input" ]

\* One axis of the list comprehension of the resample cell.
ComputeSize ==
    /\ fn.phase = "input"
    /\ fn' = [ fn EXCEPT
                 !.out_size = ResampledSize(fn.spacing, fn.new_s, fn.size),
                 !.phase = "sized" ]
    /\ UNCHANGED nbvars

\* One axis of the expansion factors of the documented Expand call.
ComputeFactor ==
    /\ fn.phase = "sized"
    /\ fn' = [ fn EXCEPT
                 !.factor = ExpandFactor(fn.spacing, fn.new_s),
                 !.phase = "expanded" ]
    /\ UNCHANGED nbvars

NextSize == ComputeSize \/ ComputeFactor

SpecSize == InitSize /\ [][NextSize]_vars

\* ================================================================== claims
\* The exact value original spacing / new spacing * original size of the
\* inputs held in fn, as the fraction FnProductNum / FnProductDen.
FnProductNum == fn.spacing[1] * fn.new_s[2] * fn.size
FnProductDen == fn.spacing[2] * fn.new_s[1]
FnRatioNum == fn.spacing[1] * fn.new_s[2]
FnRatioDen == fn.spacing[2] * fn.new_s[1]

\* C1: for every positive original spacing, new spacing and original size
\* the size computed by the resample cell is round(original spacing / new
\* spacing * original size), the nearest integer and not the truncation.
C1_SizeIsRounded ==
    fn.phase \in {"sized", "expanded"} =>
        fn.out_size = Round(FnProductNum, FnProductDen)

\* C9: on an axis whose original/new spacing ratio is a positive integer the
\* expansion factor int(original_s/new_s + 0.5) is that ratio, and factor
\* times the original size is the size the resample cell computes.
C9_ExpandAgreesWithResample ==
    (fn.phase = "expanded" /\ FnRatioNum % FnRatioDen = 0) =>
        /\ fn.factor = FnRatioNum \div FnRatioDen
        /\ ExpandedSize(fn.factor, fn.size) = fn.out_size

C9_Witness ==
    /\ fn.phase = "expanded"
    /\ FnRatioNum % FnRatioDen = 0
    /\ fn.factor >= 2
    /\ fn.new_s # One
    /\ fn.size >= 2

\* The calls of one register_images invocation.
CallsOf(id) == {i \in DOMAIN calls : calls[i].id = id}
ExecutesOf(id) == {i \in CallsOf(id) : calls[i].op = "Execute"}

\* C2: in every call of register_images the metric, the sampling strategy,
\* the interpolator, the optimizer and the initial transform are set before
\* Execute is invoked, Execute is invoked exactly once, and the stop-condition
\* description is read only after Execute has returned.
C2_ConfiguredBeforeSingleExecute ==
    LET required == {"SetMetricAsMattesMutualInformation",
                     "SetMetricSamplingStrategy", "SetInterpolator",
                     "SetOptimizerAsGradientDescent", "SetInitialTransform"}
        ids == {calls[i].id : i \in DOMAIN calls}
        OpsBefore(i) ==
            {calls[j].op : j \in {k \in 1..(i - 1) : calls[k].id = calls[i].id}}
    IN  /\ \A i \in DOMAIN calls :
            /\ calls[i].op = "Execute" => required \subseteq OpsBefore(i)
            /\ calls[i].op = "GetOptimizerStopConditionDescription" =>
                 /\ "Execute" \in OpsBefore(i)
                 /\ \E k \in DOMAIN execLog :
                        /\ execLog[k].id = calls[i].id
                        /\ execLog[k].outcome = "returned"
        /\ \A id \in ids :
            /\ Cardinality(ExecutesOf(id)) <= 1
            /\ (~frame.active \/ frame.id # id) =>
                 Cardinality(ExecutesOf(id)) = 1
        /\ \A k \in DOMAIN execLog :
            /\ required \subseteq execLog[k].configured
            /\ execLog[k].interpolator = CellArgs(execLog[k].cell).interpolator
            /\ execLog[k].initial = initial_transform

C2_Witness ==
    /\ Len(execLog) = 2
    /\ ~frame.active
    /\ \E i \in DOMAIN calls :
        calls[i].id = 2 /\ calls[i].op = "GetOptimizerStopConditionDescription"

\* C3: register_images never modifies the initial_transform it is given:
\* after any number of calls initial_transform is the value the
\* initialisation cell produced, and the second registration receives
\* exactly the transform the first one received.
C3_InitialTransformKept ==
    LET produced == CenteredTransformInitializer(fixed_image, moving_image)
    IN  /\ status["initial_alignment"] = "done" => initial_transform = produced
        /\ \A k \in DOMAIN execLog : execLog[k].initial = produced
        /\ Len(execLog) = 2 => execLog[2].initial = execLog[1].initial

C3_Witness ==
    /\ Len(execLog) = 2
    /\ execLog[1].outcome = "returned" /\ execLog[2].outcome = "returned"
    /\ execLog[1].final # execLog[1].initial
    /\ status["higher_resolution"] = "done"

\* Position of a cell in the notebook.
Pos(c) == CHOOSE i \in 1..Len(CellOrder) : CellOrder[i] = c

C5_RunsDifferInMovingAndInterpolator ==
    /\ \A k \in DOMAIN execLog :
        /\ execLog[k].fixed = fixed_image
        /\ execLog[k].cell = "original_resolution" =>
            /\ execLog[k].moving = moving_image
            /\ execLog[k].interpolator = "sitkLinear"
        /\ execLog[k].cell = "higher_resolution" =>
            /\ execLog[k].moving = resampled_moving_image
            /\ execLog[k].interpolator = "sitkNearestNeighbor"
    /\ Len(execLog) >= 1 => execLog[1].cell = "original_resolution"
    /\ Len(execLog) = 2 =>
        /\ execLog[2].cell = "higher_resolution"
        /\ execLog[2].fixed = execLog[1].fixed
        /\ execLog[2].initial = execLog[1].initial
        /\ execLog[2].configured = execLog[1].configured
        /\ execLog[2].moving # execLog[1].moving
        /\ execLog[2].interpolator # execLog[1].interpolator
    /\ \A j \in DOMAIN errLog :
        /\ errLog[j].errors.fixed_points = fixed_points
        /\ errLog[j].errors.moving_points = moving_points
        /\ fixed_points # NoPoints /\ moving_points # NoPoints

C5_Witness ==
    /\ Len(errLog) = 2
    /\ errLog[1].cell = "original_resolution"
    /\ errLog[2].cell = "higher_resolution"
    /\ status["higher_resolution"] = "done"

\* The state part of C6.
C6_Grid ==
    status["resample"] = "done" =>
        /\ \A a \in Axes : resampled_moving_image.spacing[a] = One
        /\ \A a, b \in Axes :
             resampled_moving_image.spacing[a] = resampled_moving_image.spacing[b]
        /\ resampled_moving_image.origin = moving_image.origin
        /\ resampled_moving_image.direction = moving_image.direction
        /\ resampled_moving_image.transform = "identity"
        /\ resampled_moving_image.src = moving_image.src
        /\ \A k \in DOMAIN execLog :
             execLog[k].cell = "original_resolution" =>
                /\ execLog[k].moving = moving_image
                /\ execLog[k].moving.interpolator = "none"

\* The step part of C6: once loaded, no step changes moving_image.
C6_MovingKept ==
    status["load_data"] = "done" => moving_image' = moving_image

\* C6: the resampled image lies on an isotropic grid, spacing 1.0 on every
\* axis, with the origin and direction of the original moving image, filled
\* through the identity transform, and the original moving_image is left
\* unchanged so the original-resolution registration runs on unresampled data.
C6_IsotropicGridOriginalKept == []C6_Grid /\ [][C6_MovingKept]_vars

C6_Witness ==
    /\ status["original_resolution"] = "done"
    /\ moving_image.spacing[1] # moving_image.spacing[2]
    /\ moving_image.spacing[3] # One
    /\ resampled_moving_image.size # moving_image.size

\* C7: run in notebook order the steps are strictly sequential, load,
\* resample, initial alignment, first registration, second registration,
\* histogram: a step begins only after the previous one has completed, no two
\* overlap, and the histogram runs only after both registrations have
\* produced their error arrays.
C7_StrictlySequential ==
    LET order == << "load_data", "resample", "initial_alignment",
                    "original_resolution", "higher_resolution",
                    "tre_histogram" >>
    IN  /\ \A i \in DOMAIN order :
            status[order[i]] # "pending" =>
                \A j \in 1..(i - 1) : status[order[j]] = "done"
        /\ Cardinality({c \in Cells : status[c] = "running"}) <= 1
        /\ frame.active => status[frame.cell] = "running"
        /\ status["tre_histogram"] # "pending" =>
            /\ Len(errLog) = 2
            /\ {"original_resolution_errors", "resampled_resolution_errors"}
                 \subseteq globals
            /\ original_resolution_errors = errLog[1].errors
            /\ resampled_resolution_errors = errLog[2].errors
        /\ status["tre_histogram"] = "done" =>
            plotted = << errLog[1].errors, errLog[2].errors >>

C7_Witness ==
    /\ status["tre_histogram"] = "done"
    /\ plotted[1] # NoErrors /\ plotted[2] # NoErrors

\* C8: each timed registration cell publishes exactly one variable: its
\* error array is global after the cell, every other name the cell assigns
\* stays local, and the second cell leaves original_resolution_errors
\* unchanged.
C8_OnlyErrorArraysPublished ==
    LET others == {"final_transform", "optimizer_termination",
                   "final_errors_mean", "final_errors_std", "final_errors_max"}
    IN  /\ others \cap globals = {}
        /\ status["original_resolution"] = "done" =>
            /\ "original_resolution_errors" \in globals
            /\ original_resolution_errors = errLog[1].errors
            /\ errLog[1].cell = "original_resolution"
        /\ status["higher_resolution"] = "done" =>
            /\ "resampled_resolution_errors" \in globals
            /\ resampled_resolution_errors = errLog[2].errors
            /\ errLog[2].cell = "higher_resolution"
        /\ status["original_resolution"] \in {"pending", "raised"} =>
            "original_resolution_errors" \notin globals
        /\ status["higher_resolution"] \in {"pending", "raised"} =>
            "resampled_resolution_errors" \notin globals
        /\ {"original_resolution_errors", "resampled_resolution_errors"}
              \cap locals = {}
        /\ (\A c \in RegCells : status[c] # "running") =>
            /\ locals = {}
            /\ final_transform = NoTransform
            /\ optimizer_termination = NoTermination

C8_Witness ==
    /\ status["higher_resolution"] = "done"
    /\ original_resolution_errors # resampled_resolution_errors
    /\ "resampled_resolution_errors" \in globals

====
